---- MODULE Spec2Model ----
(***************************************************************************)
(* Product KB API (src/app.py): the items and item_images tables, the      *)
(* request handlers over them, the tag codec and the search query.         *)
(*                                                                         *)
(* Text values are sequences of one-character strings, so that encoding,   *)
(* decoding, trimming, lower-casing and LIKE matching are computed         *)
(* character by character.                                                 *)
(***************************************************************************)
EXTENDS Integers, Sequences, FiniteSets, TLC

VARIABLES items, item_images, seq, resp, reqs, codec

vars == <<items, item_images, seq, resp, reqs, codec>>

\* An Optional[str] value or a nullable text column: Null is Python None / SQL
\* NULL, Some(s) a text value.
Null == [some |-> FALSE, v |-> <<>>]

Some(s) == [some |-> TRUE, v |-> s]

\* Python's "x or default" on an Optional[str]: None and "" are both falsy.
OrElse(x, default) == IF x.some /\ x.v # <<>> THEN x.v ELSE default

----------------------------------------------------------------------------
(* Program constants.                                                      *)

MAX_IMAGES == 15

MAX_BYTES == 4194304

\* The literal 15 that create_item and update_item compare len(images) with.
URL_LIST_MAX == 15

----------------------------------------------------------------------------
(* Text helpers: Python str methods and SQL string functions.              *)

Min(a, b) == IF a < b THEN a ELSE b

Max(a, b) == IF a > b THEN a ELSE b

\* Code points of the characters the model uses (ORDER BY compares by them).
Ord(c) ==
    CASE c = " "  -> 32
      [] c = "\"" -> 34
      [] c = "%"  -> 37
      [] c = ","  -> 44
      [] c = "/"  -> 47
      [] c = "1"  -> 49
      [] c = "2"  -> 50
      [] c = "3"  -> 51
      [] c = "B"  -> 66
      [] c = "W"  -> 87
      [] c = "["  -> 91
      [] c = "\\" -> 92
      [] c = "]"  -> 93
      [] c = "_"  -> 95
      [] c = "a"  -> 97
      [] c = "b"  -> 98
      [] c = "d"  -> 100
      [] c = "g"  -> 103
      [] c = "m"  -> 109
      [] c = "p"  -> 112
      [] c = "u"  -> 117
      [] c = "w"  -> 119
      [] OTHER    -> 0

\* str.lower() / SQL lower() on one character.
LowerChar(c) ==
    CASE c = "B" -> "b"
      [] c = "W" -> "w"
      [] OTHER   -> c

lower(s) == [i \in 1..Len(s) |-> LowerChar(s[i])]

IsSpace(c) == c = " "

RECURSIVE lstrip(_)
lstrip(s) ==
    IF s = <<>> THEN <<>>
    ELSE IF IsSpace(Head(s)) THEN lstrip(Tail(s)) ELSE s

RECURSIVE rstrip(_)
rstrip(s) ==
    IF s = <<>> THEN <<>>
    ELSE IF IsSpace(s[Len(s)]) THEN rstrip(SubSeq(s, 1, Len(s) - 1)) ELSE s

\* str.strip()
strip(s) == rstrip(lstrip(s))

\* str.split(sep) for a one-character sep: the pieces between the separators,
\* empty pieces kept; cur is the piece being read.
RECURSIVE split(_, _, _)
split(s, sep, cur) ==
    IF s = <<>> THEN <<cur>>
    ELSE IF Head(s) = sep THEN <<cur>> \o split(Tail(s), sep, <<>>)
    ELSE split(Tail(s), sep, Append(cur, Head(s)))

split_comma(s) == split(s, ",", <<>>)

\* s < t in code-point order (the ORDER BY of search).
RECURSIVE StrLess(_, _)
StrLess(s, t) ==
    IF t = <<>> THEN FALSE
    ELSE IF s = <<>> THEN TRUE
    ELSE IF Ord(Head(s)) < Ord(Head(t)) THEN TRUE
    ELSE IF Ord(Head(s)) > Ord(Head(t)) THEN FALSE
    ELSE StrLess(Tail(s), Tail(t))

\* SQL LIKE: % matches any run of characters, _ any one character. (The
\* escape character of LIKE, the backslash, is in no query of the model.)
RECURSIVE Like(_, _)
Like(s, pat) ==
    IF pat = <<>> THEN s = <<>>
    ELSE IF Head(pat) = "%"
         THEN \E k \in 0..Len(s) : Like(SubSeq(s, k + 1, Len(s)), Tail(pat))
    ELSE IF s = <<>> THEN FALSE
    ELSE IF Head(pat) = "_" \/ Head(pat) = Head(s) THEN Like(Tail(s), Tail(pat))
    ELSE FALSE

----------------------------------------------------------------------------
(* Tag codec: json.dumps on a list of str, json.loads, _parse_tags.        *)

\* Mutant of json_escape: nothing is escaped.
json_escape_nothing(s) == s

\* The body of a JSON string literal: quote and backslash are escaped.
RECURSIVE json_escape(_)
json_escape(s) ==
    IF s = <<>> THEN <<>>
    ELSE IF Head(s) = "\"" THEN <<"\\", "\"">> \o json_escape(Tail(s))
    ELSE IF Head(s) = "\\" THEN <<"\\", "\\">> \o json_escape(Tail(s))
    ELSE <<Head(s)>> \o json_escape(Tail(s))

json_string(s) == <<"\"">> \o json_escape(s) \o <<"\"">>

RECURSIVE json_join(_)
json_join(list) ==
    IF list = <<>> THEN <<>>
    ELSE IF Len(list) = 1 THEN json_string(list[1])
    ELSE json_string(list[1]) \o <<",", " ">> \o json_join(Tail(list))

\* json.dumps(list of str): ["a", "b"] with the separator ", ".
json_dumps(list) == <<"[">> \o json_join(list) \o <<"]">>

\* json.loads restricted to what the tag column can hold in the model: an array
\* of string literals. The result is [ok |-> TRUE, val |-> list] for such an
\* array and [ok |-> FALSE] for text that is no JSON list (json.loads raising,
\* or returning something that is not a list), both of which send _parse_tags
\* to its comma-separated fallback.
JsonFail == [ok |-> FALSE, val |-> <<>>, rest |-> <<>>]

\* A string literal body after the opening quote: the decoded text and the rest
\* after the closing quote. Of the escapes, those of quote, backslash and slash
\* are read; json.dumps writes no other for the characters of the model.
RECURSIVE json_scan_string(_, _)
json_scan_string(s, acc) ==
    IF s = <<>> THEN JsonFail
    ELSE IF Head(s) = "\"" THEN [ok |-> TRUE, val |-> acc, rest |-> Tail(s)]
    ELSE IF Head(s) = "\\"
         THEN IF Len(s) >= 2 /\ s[2] \in {"\"", "\\", "/"}
              THEN json_scan_string(Tail(Tail(s)), Append(acc, s[2]))
              ELSE JsonFail
    ELSE json_scan_string(Tail(s), Append(acc, Head(s)))

\* The elements of an array after "[" (first = TRUE) or after a "," .
RECURSIVE json_scan_elems(_, _, _)
json_scan_elems(s, acc, first) ==
    LET t == lstrip(s) IN
    IF t = <<>> THEN JsonFail
    ELSE IF Head(t) = "]"
         THEN IF first THEN [ok |-> TRUE, val |-> acc, rest |-> Tail(t)] ELSE JsonFail
    ELSE IF Head(t) = "\""
         THEN LET e == json_scan_string(Tail(t), <<>>) IN
              IF ~e.ok THEN JsonFail
              ELSE LET u == lstrip(e.rest) IN
                   IF u = <<>> THEN JsonFail
                   ELSE IF Head(u) = "," THEN json_scan_elems(Tail(u), Append(acc, e.val), FALSE)
                   ELSE IF Head(u) = "]" THEN [ok |-> TRUE, val |-> Append(acc, e.val), rest |-> Tail(u)]
                   ELSE JsonFail
    ELSE JsonFail

json_loads_list(src) ==
    LET t == lstrip(src) IN
    IF t = <<>> \/ Head(t) # "[" THEN JsonFail
    ELSE LET r == json_scan_elems(Tail(t), <<>>, TRUE) IN
         IF r.ok /\ lstrip(r.rest) = <<>> THEN r ELSE JsonFail

\* [f(x) for x in list if f(x)] with f = strip.
RECURSIVE strip_nonempty(_)
strip_nonempty(list) ==
    IF list = <<>> THEN <<>>
    ELSE IF strip(Head(list)) # <<>>
         THEN <<strip(Head(list))>> \o strip_nonempty(Tail(list))
         ELSE strip_nonempty(Tail(list))

\* src is the nullable tags_json column.
_parse_tags(src) ==
    IF ~src.some \/ src.v = <<>> THEN <<>>
    ELSE LET val == json_loads_list(src.v) IN
         IF val.ok THEN strip_nonempty(val.val)
         ELSE strip_nonempty(split_comma(src.v))

\* The copy of _parse_tags nested in get_item.
get_item_parse_tags(src) ==
    IF ~src.some \/ src.v = <<>> THEN <<>>
    ELSE LET v == json_loads_list(src.v) IN
         IF v.ok THEN strip_nonempty(v.val)
         ELSE strip_nonempty(split_comma(src.v))

----------------------------------------------------------------------------
(* The two tables. items is a set of rows with primary key id; item_images *)
(* a set of rows with the serial primary key id and the foreign key        *)
(* item_id -> items.id ON DELETE CASCADE. The column data is kept as its   *)
(* length, size; created_at is not modelled.                               *)

ItemModel(id, name, desc, tags_json, images_json) ==
    [id |-> id, name |-> name, desc |-> desc,
     tags_json |-> tags_json, images_json |-> images_json]

ItemImage(id, item_id, filename, content_type, size) ==
    [id |-> id, item_id |-> item_id, filename |-> filename,
     content_type |-> content_type, size |-> size]

\* The database as one value: both tables and the item_images id sequence.
DB(its, imgs, sq) == [items |-> its, item_images |-> imgs, seq |-> sq]

\* db.get(ItemModel, id): the set of rows with that key (empty: None).
get_ItemModel(db, id) == {r \in db.items : r.id = id}

\* db.get(ItemImage, id)
get_ItemImage(db, image_id) == {r \in db.item_images : r.id = image_id}

\* db.query(ItemImage).filter(ItemImage.item_id == item_id)
images_of(db, item_id) == {r \in db.item_images : r.item_id = item_id}

\* ... .count()
count_images(db, item_id) == Cardinality(images_of(db, item_id))

\* A set of integers in ascending order (ORDER BY ItemImage.id).
RECURSIVE SortedInts(_)
SortedInts(S) ==
    IF S = {} THEN <<>>
    ELSE LET m == CHOOSE x \in S : \A y \in S : x <= y
         IN <<m>> \o SortedInts(S \ {m})

\* The ids of a product's images, ascending.
image_ids(db, item_id) == SortedInts({r.id : r \in images_of(db, item_id)})

\* INSERT INTO items at commit: the primary key rejects a second row with the id
\* (IntegrityError, which no handler catches: HTTP 500).
insert_item(db, row) ==
    IF \E r \in db.items : r.id = row.id
    THEN [ok |-> FALSE, db |-> db]
    ELSE [ok |-> TRUE, db |-> [db EXCEPT !.items = @ \cup {row}]]

\* Mutant of delete_item_row: the foreign key without ON DELETE CASCADE.
delete_item_row_no_cascade(db, id) ==
    [db EXCEPT !.items = {r \in @ : r.id # id}]

\* DELETE FROM items WHERE id = ...: ON DELETE CASCADE removes the owned images.
delete_item_row(db, id) ==
    [db EXCEPT !.items = {r \in @ : r.id # id},
               !.item_images = {r \in @ : r.item_id # id}]

\* DELETE FROM item_images WHERE id = ...
delete_image_row(db, image_id) ==
    [db EXCEPT !.item_images = {r \in @ : r.id # image_id}]

\* INSERT INTO item_images at commit, in the order the rows were added: each row
\* takes the next value of the id sequence (also when the statement then fails),
\* and the foreign key rejects rows whose item_id has no items row.
insert_images(db, item_id, files) ==
    LET n    == Len(files)
        rows == {ItemImage(db.seq + i, item_id, files[i].filename,
                           files[i].content_type, files[i].size) : i \in 1..n}
    IN IF get_ItemModel(db, item_id) = {}
       THEN [ok |-> FALSE, db |-> [db EXCEPT !.seq = @ + n]]
       ELSE [ok |-> TRUE,
             db |-> [db EXCEPT !.item_images = @ \cup rows, !.seq = @ + n]]

----------------------------------------------------------------------------
(* Responses. status is the HTTP status: 500 is an exception no handler    *)
(* catches.                                                                *)

Response(status, body, db) == [status |-> status, body |-> body, db |-> db]

Ok == [ok |-> TRUE]

Detail(d) == [detail |-> d]

DigitChar(d) ==
    CASE d = 0 -> "0" [] d = 1 -> "1" [] d = 2 -> "2" [] d = 3 -> "3"
      [] d = 4 -> "4" [] d = 5 -> "5" [] d = 6 -> "6" [] d = 7 -> "7"
      [] d = 8 -> "8" [] OTHER -> "9"

\* str(n) for n >= 0
RECURSIVE str_int(_)
str_int(n) ==
    IF n < 10 THEN <<DigitChar(n)>> ELSE str_int(n \div 10) \o <<DigitChar(n % 10)>>

\* f"/media/{img_id}"
media_url(img_id) == <<"/", "m", "e", "d", "i", "a", "/">> \o str_int(img_id)

MapUrls(ids) == [i \in 1..Len(ids) |-> media_url(ids[i])]

\* to_dict(m): the ItemIn a search result carries.
to_dict(db, m) ==
    [id |-> m.id, name |-> m.name, desc |-> OrElse(m.desc, <<>>),
     tags |-> _parse_tags(m.tags_json),
     images |-> MapUrls(image_ids(db, m.id))]

----------------------------------------------------------------------------
(* search                                                                  *)

\* One row against the filter of search: lower(column) LIKE %lower(q)% over id,
\* name, coalesce(desc, '') and coalesce(tags_json, '').
search_match(r, q) ==
    LET pattern == <<"%">> \o lower(q) \o <<"%">> IN
    \/ Like(lower(r.id), pattern)
    \/ Like(lower(r.name), pattern)
    \/ Like(lower(OrElse(r.desc, <<>>)), pattern)
    \/ Like(lower(OrElse(r.tags_json, <<>>)), pattern)

\* query after the optional filter ("if q": None and "" do not filter).
search_query(db, q) ==
    IF q.some /\ q.v # <<>> THEN {r \in db.items : search_match(r, q.v)}
    ELSE db.items

\* ORDER BY ItemModel.id
RECURSIVE order_by_id(_)
order_by_id(S) ==
    IF S = {} THEN <<>>
    ELSE LET m == CHOOSE x \in S : \A y \in S : y = x \/ StrLess(x.id, y.id)
         IN <<m>> \o order_by_id(S \ {m})

\* .offset(offset).limit(limit).all(): PostgreSQL refuses a negative OFFSET or
\* LIMIT (an exception, HTTP 500); LIMIT 0 is an empty page.
search_rows(query, limit, offset) ==
    LET sorted == order_by_id(query) IN
    SubSeq(sorted, offset + 1, Min(Len(sorted), offset + limit))

\* Mutant of search_total: the count taken after offset and limit.
search_total_of_page(query, rows) == Len(rows)

search_total(query, rows) == Cardinality(query)

search(db, q, limit, offset) ==
    LET query == search_query(db, q) IN
    IF limit < 0 \/ offset < 0
    THEN Response(500, Detail("Internal Server Error"), db)
    ELSE LET rows == search_rows(query, limit, offset) IN
         Response(200,
                  [total |-> search_total(query, rows),
                   items |-> [i \in 1..Len(rows) |-> to_dict(db, rows[i])]],
                  db)

----------------------------------------------------------------------------
(* create_item, get_item, update_item, delete_item                         *)

\* Lines 153-158: the checks before the INSERT. 0: go on to the INSERT.
create_item_check(db, item) ==
    IF Len(item.images) > URL_LIST_MAX THEN 400
    ELSE IF get_ItemModel(db, item.id) # {} THEN 409
    ELSE 0

create_item_row(item) ==
    ItemModel(item.id, item.name,
              Some(OrElse(item.desc, <<>>)),
              Some(json_dumps(item.tags)),
              Some(json_dumps(SubSeq(item.images, 1, Min(Len(item.images), URL_LIST_MAX)))))

\* Lines 159-167: db.add and db.commit.
create_item_commit(db, item) ==
    LET r == insert_item(db, create_item_row(item)) IN
    IF r.ok THEN Response(201, Ok, r.db)
    ELSE Response(500, Detail("IntegrityError"), db)

create_item_error(db, code) ==
    Response(code, Detail(IF code = 400 THEN "Max 15 images" ELSE "ID already exists"), db)

create_item(db, item) ==
    LET c == create_item_check(db, item) IN
    IF c # 0 THEN create_item_error(db, c) ELSE create_item_commit(db, item)

get_item(db, item_id) ==
    LET found == get_ItemModel(db, item_id) IN
    IF found = {} THEN Response(404, Detail("Not found"), db)
    ELSE LET row  == CHOOSE r \in found : TRUE
             desc == OrElse(row.desc, <<>>)
         IN Response(200,
                     [id |-> row.id, name |-> row.name, desc |-> desc,
                      description |-> desc,
                      tags |-> get_item_parse_tags(row.tags_json),
                      tags_json |-> OrElse(row.tags_json, <<>>),
                      images |-> MapUrls(image_ids(db, item_id))],
                     db)

\* A JSON body field of PUT /api/items/{id}: absent, null, or a value.
Absent == [present |-> FALSE, some |-> FALSE, v |-> <<>>]

JsonNull == [present |-> TRUE, some |-> FALSE, v |-> <<>>]

Value(x) == [present |-> TRUE, some |-> TRUE, v |-> x]

\* ItemUpdate: every field Optional with default None, so an absent field and a
\* null field both bind to None.
ItemUpdate_field(f) == IF f.present /\ f.some THEN Some(f.v) ELSE Null

ItemUpdate(body) ==
    [name |-> ItemUpdate_field(body.name), desc |-> ItemUpdate_field(body.desc),
     tags |-> ItemUpdate_field(body.tags), images |-> ItemUpdate_field(body.images)]

\* Lines 221-227 on the loaded row: the attributes the patch sets.
update_item_row(row, patch) ==
    LET r1 == IF patch.name.some THEN [row EXCEPT !.name = patch.name.v] ELSE row
        r2 == IF patch.desc.some THEN [r1 EXCEPT !.desc = Some(patch.desc.v)] ELSE r1
        r3 == IF patch.tags.some
              THEN [r2 EXCEPT !.tags_json = Some(json_dumps(patch.tags.v))] ELSE r2
    IN IF patch.images.some
       THEN [r3 EXCEPT !.images_json =
                Some(json_dumps(SubSeq(patch.images.v, 1,
                                       Min(Len(patch.images.v), URL_LIST_MAX))))]
       ELSE r3

update_item(db, item_id, patch) ==
    LET found == get_ItemModel(db, item_id) IN
    IF found = {} THEN Response(404, Detail("Not found"), db)
    ELSE IF patch.images.some /\ Len(patch.images.v) > URL_LIST_MAX
         THEN Response(400, Detail("Max 15 images"), db)
    ELSE LET row == CHOOSE r \in found : TRUE IN
         Response(200, Ok,
                  [db EXCEPT !.items = (@ \ {row}) \cup {update_item_row(row, patch)}])

\* Lines 241-242: db.delete(row) and db.commit().
delete_item_commit(db, item_id) == Response(200, Ok, delete_item_row(db, item_id))

delete_item(db, item_id) ==
    IF get_ItemModel(db, item_id) = {} THEN Response(404, Detail("Not found"), db)
    ELSE delete_item_commit(db, item_id)

----------------------------------------------------------------------------
(* upload_images, list_images, serve_image, delete_image                   *)

\* An UploadFile: filename and content_type are Optional[str]; size is the
\* length of what f.read() returns.
UploadFile(filename, content_type, size) ==
    [filename |-> filename, content_type |-> content_type, size |-> size]

\* str.startswith
startswith(s, prefix) ==
    Len(s) >= Len(prefix) /\ SubSeq(s, 1, Len(prefix)) = prefix

image_slash == <<"i", "m", "a", "g", "e", "/">>

\* Mutant of upload_stub: the display name is ignored.
upload_stub_without_name(item_id, name) ==
    ItemModel(item_id, item_id, Some(<<>>),
              Some(json_dumps(<<>>)), Some(json_dumps(<<>>)))

\* Lines 258-264: the stub row of the auto-create.
upload_stub(item_id, name) ==
    ItemModel(item_id, OrElse(name, item_id), Some(<<>>),
              Some(json_dumps(<<>>)), Some(json_dumps(<<>>)))

\* Lines 255-266: db.get, and the INSERT and commit of the stub when the item is
\* missing.
upload_ensure_item(db, item_id, name) ==
    IF get_ItemModel(db, item_id) # {} THEN [ok |-> TRUE, db |-> db]
    ELSE insert_item(db, upload_stub(item_id, name))

\* Lines 272-291: the loop over the files. acc holds the rows added so far (so
\* saved = Len(acc)); status 0 means the loop ended without raising.
\* Mutant of upload_cap_reached: the comparison off by one.
upload_cap_reached_late(cur, saved) == cur + saved > MAX_IMAGES

upload_cap_reached(cur, saved) == cur + saved >= MAX_IMAGES

upload_too_large(size) == size > MAX_BYTES

RECURSIVE upload_loop(_, _, _)
upload_loop(files, cur, acc) ==
    IF files = <<>> THEN [status |-> 0, detail |-> "", rows |-> acc]
    ELSE IF upload_cap_reached(cur, Len(acc))
         THEN [status |-> 0, detail |-> "", rows |-> acc]
    ELSE LET f == Head(files) IN
         IF ~startswith(OrElse(f.content_type, <<>>), image_slash)
         THEN [status |-> 400, detail |-> "Only image/* files allowed", rows |-> acc]
         ELSE IF f.size = 0 THEN upload_loop(Tail(files), cur, acc)
         ELSE IF upload_too_large(f.size)
              THEN [status |-> 400, detail |-> "Image too large (max 4MB)", rows |-> acc]
         ELSE upload_loop(Tail(files), cur,
                          Append(acc, [filename |-> OrElse(f.filename, <<"i", "m", "a", "g", "e">>),
                                       content_type |-> f.content_type.v,
                                       size |-> f.size]))

\* Lines 272-296 given cur: the loop, the saved == 0 check and the commit. An
\* exception before the commit leaves the session to db.close(), which rolls the
\* added rows back.
upload_store(db, item_id, files, cur) ==
    LET l == upload_loop(files, cur, <<>>) IN
    IF l.status # 0 THEN Response(l.status, Detail(l.detail), db)
    ELSE IF Len(l.rows) = 0 THEN Response(400, Detail("No images uploaded"), db)
    ELSE LET r == insert_images(db, item_id, l.rows) IN
         IF r.ok THEN Response(201, [ok |-> TRUE, added |-> Len(l.rows)], r.db)
         ELSE Response(500, Detail("IntegrityError"), r.db)

\* Lines 268-270 and on: cur, the "Already has" check, then upload_store.
upload_count_and_store(db, item_id, files) ==
    LET cur == count_images(db, item_id) IN
    IF cur >= MAX_IMAGES THEN Response(400, Detail("Already has max images"), db)
    ELSE upload_store(db, item_id, files, cur)

upload_images(db, item_id, files, name) ==
    LET e == upload_ensure_item(db, item_id, name) IN
    IF ~e.ok THEN Response(500, Detail("IntegrityError"), db)
    ELSE upload_count_and_store(e.db, item_id, files)

list_images(db, item_id) ==
    LET ids == image_ids(db, item_id) IN
    Response(200,
             [k \in 1..Len(ids) |->
                LET r == CHOOSE x \in db.item_images : x.id = ids[k] IN
                [id |-> r.id, url |-> media_url(r.id),
                 filename |-> r.filename, content_type |-> r.content_type]],
             db)

serve_image(db, image_id) ==
    LET found == get_ItemImage(db, image_id) IN
    IF found = {} THEN Response(404, Detail("Not found"), db)
    ELSE LET img == CHOOSE r \in found : TRUE IN
         Response(200, [size |-> img.size, media_type |-> img.content_type], db)

delete_image_commit(db, image_id) == Response(200, Ok, delete_image_row(db, image_id))

delete_image(db, image_id) ==
    IF get_ItemImage(db, image_id) = {} THEN Response(404, Detail("Not found"), db)
    ELSE delete_image_commit(db, image_id)

----------------------------------------------------------------------------
(* Bounds and the inputs the requests are drawn from.                      *)

\* The item_images id sequence is not advanced beyond this value.
MaxImageId == 16

\* The length of a batch that fills less than half of a product's allowance.
Few == 7

\* The same, under SpecConc (room for two full uploads).
MaxImageIdConc == 30

p1 == <<"p", "1">>

p2 == <<"p", "2">>

p3 == <<"p", "3">>

Widget == <<"W", "i", "d", "g", "e", "t">>

Gadget == <<"g", "a", "d", "g", "e", "t">>

Cam == <<"C", "a", "m">>

blue == <<"b", "l", "u", "e">>

small == <<"s", "m", "a", "l", "l">>

a_desc == <<"a", " ", "d", "e", "s", "c">>

a_url == <<"/", "u", ".", "p", "n", "g">>

image_png == image_slash \o <<"p", "n", "g">>

text_plain == <<"t", "e", "x", "t", "/", "p", "l", "a", "i", "n">>

\* n copies of x.
Rep(n, x) == [i \in 1..n |-> x]

\* Files: a valid image of the largest accepted size, an empty one, one byte too
\* large, and one that is no image.
valid_file == UploadFile(Null, Some(image_png), MAX_BYTES)

empty_file == UploadFile(Null, Some(image_png), 0)

large_file == UploadFile(Some(<<"x">>), Some(image_png), MAX_BYTES + 1)

text_file == UploadFile(Some(<<"x">>), Some(text_plain), 1)

untyped_file == UploadFile(Null, Null, 1)

\* The database the handlers of the serial specifications run on.
CurDB == DB(items, item_images, seq)

NoResp == [op |-> "none", args |-> <<>>, status |-> 0, body |-> <<>>]

NoCodec == [stage |-> "off"]

----------------------------------------------------------------------------
(* One request served from start to end with no other request in between:  *)
(* the response is recorded in resp, the database replaced by the one the   *)
(* handler leaves.                                                         *)

Serve(op, args, r) ==
    /\ items' = r.db.items
    /\ item_images' = r.db.item_images
    /\ seq' = r.db.seq
    /\ resp' = [op |-> op, args |-> args, status |-> r.status, body |-> r.body]
    /\ UNCHANGED <<reqs, codec>>

CreateItem(item) == Serve("create_item", item, create_item(CurDB, item))

GetItem(item_id) == Serve("get_item", [item_id |-> item_id], get_item(CurDB, item_id))

UpdateItem(item_id, body) ==
    Serve("update_item", [item_id |-> item_id, body |-> body],
          update_item(CurDB, item_id, ItemUpdate(body)))

DeleteItem(item_id) ==
    Serve("delete_item", [item_id |-> item_id], delete_item(CurDB, item_id))

UploadImages(item_id, files, name) ==
    LET r == upload_images(CurDB, item_id, files, name) IN
    /\ r.db.seq <= MaxImageId
    /\ Serve("upload_images", [item_id |-> item_id, files |-> files, name |-> name], r)

ListImages(item_id) ==
    Serve("list_images", [item_id |-> item_id], list_images(CurDB, item_id))

ServeImage(image_id) ==
    Serve("serve_image", [image_id |-> image_id], serve_image(CurDB, image_id))

DeleteImage(image_id) ==
    Serve("delete_image", [image_id |-> image_id], delete_image(CurDB, image_id))

Search(q, limit, offset) ==
    Serve("search", [q |-> q, limit |-> limit, offset |-> offset],
          search(CurDB, q, limit, offset))

\* Empty tables, the id sequence at its start, no request served yet.
Init ==
    /\ items = {}
    /\ item_images = {}
    /\ seq = 0
    /\ resp = NoResp
    /\ reqs = <<>>
    /\ codec = NoCodec

----------------------------------------------------------------------------
(* Spec: the image subsystem with the record operations that create and    *)
(* delete owners, one request at a time.                                   *)

ItemIds == {p1, p2}

ItemIns ==
    {[id |-> id, name |-> Widget, desc |-> Null, tags |-> <<>>, images |-> <<>>] :
        id \in ItemIds}

\* Batches of files: all valid (fewer than, exactly and more than MAX_IMAGES),
\* and batches with an empty, oversize, non-image or untyped file in them.
Batches ==
    {Rep(Few, valid_file), Rep(MAX_IMAGES, valid_file), Rep(MAX_IMAGES + 5, valid_file),
     <<text_file>>, Rep(Few, valid_file) \o <<text_file>>,
     Rep(MAX_IMAGES, valid_file) \o <<text_file>>,
     <<empty_file>>, <<empty_file>> \o Rep(Few, valid_file),
     <<large_file>>, <<untyped_file>>}

Names == {Null, Some(<<>>), Some(Cam)}

ImageIds == {1, 2, MAX_IMAGES + 1}

Next ==
    \/ \E item \in ItemIns : CreateItem(item)
    \/ \E id \in ItemIds : GetItem(id)
    \/ \E id \in ItemIds : DeleteItem(id)
    \/ \E id \in ItemIds, files \in Batches, name \in Names :
          UploadImages(id, files, name)
    \/ \E id \in ItemIds : ListImages(id)
    \/ \E i \in ImageIds : ServeImage(i)
    \/ \E i \in ImageIds : DeleteImage(i)

Spec == Init /\ [][Next]_vars

----------------------------------------------------------------------------
(* SpecItems: the record store, one request at a time.                     *)

ItemInsFull ==
    {[id |-> id, name |-> Widget, desc |-> d, tags |-> t, images |-> im] :
        id \in ItemIds, d \in {Null, Some(a_desc)},
        t \in {<<>>, <<blue, small>>},
        im \in {<<>>, Rep(URL_LIST_MAX + 1, a_url)}}

UpdateBodies ==
    [name : {Absent, JsonNull, Value(Gadget)},
     desc : {Absent, JsonNull, Value(<<>>)},
     tags : {Absent, JsonNull, Value(<<>>)},
     images : {Absent, Value(<<a_url>>), Value(Rep(URL_LIST_MAX + 1, a_url))}]

NextItems ==
    \/ \E item \in ItemInsFull : CreateItem(item)
    \/ \E id \in ItemIds : GetItem(id)
    \/ \E id \in ItemIds, body \in UpdateBodies : UpdateItem(id, body)
    \/ \E id \in ItemIds : DeleteItem(id)

SpecItems == Init /\ [][NextItems]_vars

----------------------------------------------------------------------------
(* Properties of the serial specifications. In a step that serves a        *)
(* request, resp' carries the request and its response, the unprimed        *)
(* variables the database before it and the primed ones the database after. *)

WriteOps == {"create_item", "update_item", "delete_item", "upload_images", "delete_image"}

is_image_type(f) == startswith(OrElse(f.content_type, <<>>), image_slash)

\* A file that is an image, non-empty and within MAX_BYTES.
valid_image(f) == is_image_type(f) /\ f.size > 0 /\ f.size <= MAX_BYTES

live(its, id) == \E r \in its : r.id = id

owned(imgs, id) == {r \in imgs : r.item_id = id}

\* C2: every write that ends in an error (400, 404, 409) leaves the stored
\* records and the stored images exactly as they were before the call.
C2_FailedWriteChangesNothing ==
    [][(resp'.op \in WriteOps /\ resp'.status \in {400, 404, 409})
          => (items' = items /\ item_images' = item_images)]_vars

\* C6 as stated: an upload to an id that is not live, with at least one valid
\* non-empty image in the batch, succeeds and leaves a product with that id,
\* named by the display name (the id when there is none), with empty description
\* and tags, owning the saved images.
StubAsClaimed(its, imgs, args, body) ==
    /\ \E r \in its :
          /\ r.id = args.item_id
          /\ r.name = OrElse(args.name, args.item_id)
          /\ OrElse(r.desc, <<>>) = <<>>
          /\ _parse_tags(r.tags_json) = <<>>
    /\ body.added >= 1
    /\ Cardinality(owned(imgs, args.item_id)) = body.added

C6_UploadToMissingIdSucceeds ==
    [][(/\ resp'.op = "upload_images"
        /\ ~live(items, resp'.args.item_id)
        /\ \E k \in 1..Len(resp'.args.files) : valid_image(resp'.args.files[k]))
          => (/\ resp'.status = 201
              /\ StubAsClaimed(items', item_images', resp'.args, resp'.body))]_vars

\* C6 as amended: the same when every file of the batch is an image within
\* MAX_BYTES and at least one of them is non-empty.
C6_UploadOfImagesToMissingIdSucceeds ==
    [][(/\ resp'.op = "upload_images"
        /\ ~live(items, resp'.args.item_id)
        /\ \A k \in 1..Len(resp'.args.files) :
              is_image_type(resp'.args.files[k]) /\ resp'.args.files[k].size <= MAX_BYTES
        /\ \E k \in 1..Len(resp'.args.files) : resp'.args.files[k].size > 0)
          => (/\ resp'.status = 201
              /\ StubAsClaimed(items', item_images', resp'.args, resp'.body))]_vars

\* An upload with a display name created the product and its first images.
C6_Witness ==
    /\ resp.op = "upload_images"
    /\ resp.status = 201
    /\ resp.args.name = Some(Cam)
    /\ \E r \in items : r.id = resp.args.item_id /\ r.name = Cam
    /\ Cardinality(owned(item_images, resp.args.item_id)) = resp.body.added

\* C7: for a product owning c < MAX_IMAGES images and a batch of n valid
\* non-empty images, upload_images stores exactly min(n, MAX_IMAGES - c) new
\* images, all owned by the product, reports that number as added, and removes
\* nothing.
C7_UploadStoresUpToTheCap ==
    [][(/\ resp'.op = "upload_images"
        /\ \A k \in 1..Len(resp'.args.files) : valid_image(resp'.args.files[k])
        /\ count_images(CurDB, resp'.args.item_id) < MAX_IMAGES)
          => LET id == resp'.args.item_id
                 c  == count_images(CurDB, id)
                 m  == Min(Len(resp'.args.files), MAX_IMAGES - c)
             IN /\ resp'.status = 201
                /\ resp'.body.added = m
                /\ item_images \subseteq item_images'
                /\ Cardinality(item_images' \ item_images) = m
                /\ \A r \in item_images' \ item_images : r.item_id = id]_vars

\* Twenty valid images were uploaded and fifteen stored and reported.
C7_Witness ==
    /\ resp.op = "upload_images"
    /\ Len(resp.args.files) = MAX_IMAGES + 5
    /\ resp.status = 201
    /\ resp.body.added = MAX_IMAGES
    /\ Cardinality(owned(item_images, resp.args.item_id)) = MAX_IMAGES

\* C5 as stated: a successful update_item sets every field present in the JSON
\* body, a null one to NULL, leaves the absent ones, the other records and the
\* images alone; on an absent id it answers 404.
FieldAsClaimed(old, new, f, enc) ==
    IF ~f.present THEN new = old
    ELSE IF f.some THEN new = Some(enc) ELSE new = Null

C5_UpdateSetsExactlyThePresentFields ==
    [][resp'.op = "update_item"
          => LET id   == resp'.args.item_id
                 body == resp'.args.body
             IN IF ~live(items, id)
                THEN resp'.status = 404 /\ items' = items /\ item_images' = item_images
                ELSE resp'.status = 200
                     => /\ item_images' = item_images
                        /\ {r \in items' : r.id # id} = {r \in items : r.id # id}
                        /\ \E old \in items, new \in items' :
                              /\ old.id = id /\ new.id = id
                              /\ body.name.present /\ body.name.some => new.name = body.name.v
                              /\ ~body.name.present => new.name = old.name
                              /\ FieldAsClaimed(old.desc, new.desc, body.desc, body.desc.v)
                              /\ FieldAsClaimed(old.tags_json, new.tags_json, body.tags,
                                                json_dumps(body.tags.v))
                              /\ FieldAsClaimed(old.images_json, new.images_json, body.images,
                                                json_dumps(body.images.v))]_vars

----------------------------------------------------------------------------
(* SpecSearch: search over the stores that create_item and delete_item     *)
(* build.                                                                  *)

SearchIds == {p1, p2, p3}

SearchItemIns ==
    {[id |-> id, name |-> v[1], desc |-> Null, tags |-> v[2], images |-> <<>>] :
        id \in SearchIds, v \in {<<Widget, <<>>>>, <<Gadget, <<blue, small>>>>}}

\* No q, an empty q, a tag, a name in another case, a LIKE wildcard, no match.
Queries ==
    {Null, Some(<<>>), Some(blue), Some(<<"W", "I", "D">>), Some(<<"_", "2">>),
     Some(<<"z", "z", "z">>)}

Limits == {-1, 0, 1, 2, 1000}

Offsets == {-1, 0, 1, 2, 5}

NextSearch ==
    \/ \E item \in SearchItemIns : CreateItem(item)
    \/ \E id \in SearchIds : DeleteItem(id)
    \/ \E q \in Queries, limit \in Limits, offset \in Offsets : Search(q, limit, offset)

SpecSearch == Init /\ [][NextSearch]_vars

\* The place of a row among the rows of M in ascending id order, from 1.
Rank(M, r) == 1 + Cardinality({x \in M : StrLess(x.id, r.id)})

\* C8: for limit >= 1 and offset >= 0, total is the number of records matching
\* q (all of them when q is empty), whatever limit and offset are, and the items
\* are the matching records in ascending id order without the first offset of
\* them and at most limit of them.
C8_SearchTotalAndPage ==
    /\ (resp.op = "search" /\ resp.args.limit >= 1 /\ resp.args.offset >= 0)
          => LET M     == search_query(CurDB, resp.args.q)
                 page  == {r \in M : /\ Rank(M, r) > resp.args.offset
                                     /\ Rank(M, r) <= resp.args.offset + resp.args.limit}
                 its   == resp.body.items
             IN /\ resp.status = 200
                /\ resp.body.total = Cardinality(M)
                /\ (~resp.args.q.some \/ resp.args.q.v = <<>>) => resp.body.total = Cardinality(items)
                /\ Len(its) = Cardinality(page)
                /\ \A i \in 1..Len(its) :
                      \E r \in page : its[i] = to_dict(CurDB, r) /\ Rank(M, r) = resp.args.offset + i
    /\ resp.op = "search"
          => \A limit \in {l \in Limits : l >= 1}, offset \in {o \in Offsets : o >= 0} :
                search(CurDB, resp.args.q, limit, offset).body.total
                   = search(CurDB, resp.args.q, 1, 0).body.total

\* A query that leaves one record out, paged to the second of its two matches.
C8_Witness ==
    /\ resp.op = "search"
    /\ resp.args.q = Some(blue)
    /\ resp.args.limit = 1
    /\ resp.args.offset = 1
    /\ Cardinality(items) = 3
    /\ resp.body.total = 2
    /\ Len(resp.body.items) = 1
    /\ resp.body.items[1].id = p3

\* C9: a limit below 1 is served as limit 1 and an offset below 0 as offset 0.
C9_SearchClampsPaging ==
    (resp.op = "search" /\ (resp.args.limit < 1 \/ resp.args.offset < 0))
       => LET r == search(CurDB, resp.args.q, Max(resp.args.limit, 1), Max(resp.args.offset, 0))
          IN resp.status = r.status /\ resp.body = r.body

----------------------------------------------------------------------------
(* SpecTags: the tag codec on its own. A list of tags is encoded as        *)
(* create_item and update_item store it, and the stored text decoded as    *)
(* search (through to_dict) and get_item return it.                        *)

\* The tags of a list, written one after the other, have at most this many
\* characters, separators included.
MaxTagText == 4

TagChars == {"a", " ", ",", "\"", "\\"}

\* Every list of tags over TagChars within MaxTagText: the texts over TagChars
\* and a separator, cut at the separators.
TagLists ==
    {IF t = <<>> THEN <<>> ELSE split(t, "|", <<>>) :
        t \in UNION {[1..k -> TagChars \cup {"|"}] : k \in 0..MaxTagText}}

\* Stored text that no json.dumps wrote: NULL, empty, comma-separated.
LegacyTagTexts ==
    {Null, Some(<<>>), Some(<<"a", ",", " ", "b">>), Some(<<"a", ",", ",", "b", " ">>),
     Some(<<"[", "a">>)}

InitTags ==
    /\ items = {}
    /\ item_images = {}
    /\ seq = 0
    /\ resp = NoResp
    /\ reqs = <<>>
    /\ \/ \E t \in TagLists :
             codec = [stage |-> "input", written |-> TRUE, tags |-> t,
                      tags_json |-> Null, out |-> <<>>, out_get |-> <<>>]
       \/ \E raw \in LegacyTagTexts :
             codec = [stage |-> "stored", written |-> FALSE, tags |-> <<>>,
                      tags_json |-> raw, out |-> <<>>, out_get |-> <<>>]

\* tags_json=json.dumps(item.tags or [])
TagsEncode ==
    /\ codec.stage = "input"
    /\ codec' = [codec EXCEPT !.stage = "stored", !.tags_json = Some(json_dumps(codec.tags))]
    /\ UNCHANGED <<items, item_images, seq, resp, reqs>>

TagsDecode ==
    /\ codec.stage = "stored"
    /\ codec' = [codec EXCEPT !.stage = "decoded",
                              !.out = _parse_tags(codec.tags_json),
                              !.out_get = get_item_parse_tags(codec.tags_json)]
    /\ UNCHANGED <<items, item_images, seq, resp, reqs>>

NextTags == TagsEncode \/ TagsDecode

SpecTags == InitTags /\ [][NextTags]_vars

\* Every tag is non-empty and neither starts nor ends with white space.
NonEmptyTrimmed(tags) ==
    \A i \in 1..Len(tags) :
        /\ Len(tags[i]) >= 1
        /\ tags[i][1] # " "
        /\ tags[i][Len(tags[i])] # " "

\* C10: a list of non-empty trimmed tags, encoded with json.dumps and decoded
\* with _parse_tags, comes back as the same list in the same order, from search
\* and from get_item.
C10_TagRoundTrip ==
    (codec.stage = "decoded" /\ codec.written /\ NonEmptyTrimmed(codec.tags))
       => (codec.out = codec.tags /\ codec.out_get = codec.tags)

\* Two tags, one of them holding a quote, came back as they went in.
C10_Witness ==
    /\ codec.stage = "decoded"
    /\ codec.written
    /\ codec.tags = << <<"a">>, <<"\"", ",">> >>
    /\ codec.out = codec.tags
    /\ codec.out_get = codec.tags

----------------------------------------------------------------------------
(* SpecConc: requests in flight at once. Each handler runs in its own      *)
(* session; a step is one round trip to the database (a db.get, a count, a *)
(* commit), and the steps of different requests interleave. reqs[s] is the  *)
(* request of slot s: its handler, arguments, position, the local cur of    *)
(* upload_images and, once done, the status it ended with.                  *)

Slots == {1, 2}

ConcIds == {p1, p2}

ConcItemIns ==
    {[id |-> id, name |-> Widget, desc |-> Null, tags |-> <<>>, images |-> <<>>] :
        id \in ConcIds}

ConcBatches == {Rep(MAX_IMAGES, valid_file), <<text_file>>}

ConcImageIds == {1}

Idle == [op |-> "none", args |-> <<>>, pc |-> "idle", cur |-> 0, status |-> 0]

InitConc ==
    /\ items = {}
    /\ item_images = {}
    /\ seq = 0
    /\ resp = NoResp
    /\ reqs = [s \in Slots |-> Idle]
    /\ codec = NoCodec

\* A slot takes a new request when it has none or its last one is done.
Free(s) == reqs[s].pc \in {"idle", "done"}

SetDB(db) ==
    /\ items' = db.items
    /\ item_images' = db.item_images
    /\ seq' = db.seq

Goto(s, op, args, pc, cur, status) ==
    /\ reqs' = [reqs EXCEPT ![s] = [op |-> op, args |-> args, pc |-> pc,
                                    cur |-> cur, status |-> status]]
    /\ UNCHANGED <<resp, codec>>

\* create_item, lines 153-158.
CreateCheck(s, item) ==
    /\ Free(s)
    /\ LET c == create_item_check(CurDB, item) IN
       Goto(s, "create_item", item, IF c = 0 THEN "commit" ELSE "done", 0, c)
    /\ UNCHANGED <<items, item_images, seq>>

\* create_item, lines 159-167.
CreateCommit(s) ==
    /\ reqs[s].op = "create_item" /\ reqs[s].pc = "commit"
    /\ LET r == create_item_commit(CurDB, reqs[s].args) IN
       /\ SetDB(r.db)
       /\ Goto(s, "create_item", reqs[s].args, "done", 0, r.status)

\* delete_item, lines 237-239.
DeleteItemGet(s, item_id) ==
    /\ Free(s)
    /\ IF get_ItemModel(CurDB, item_id) = {}
       THEN Goto(s, "delete_item", [item_id |-> item_id], "done", 0, 404)
       ELSE Goto(s, "delete_item", [item_id |-> item_id], "commit", 0, 0)
    /\ UNCHANGED <<items, item_images, seq>>

\* How a DELETE of a loaded row ends at commit: with the row still there, as the
\* handler returns; with the row gone (another request deleted it after the
\* db.get), the ORM either only warns or raises StaleDataError (HTTP 500),
\* depending on its version.
delete_statuses(found, status) == IF found THEN {status} ELSE {status, 500}

\* delete_item, lines 240-242.
DeleteItemCommit(s) ==
    /\ reqs[s].op = "delete_item" /\ reqs[s].pc = "commit"
    /\ LET r == delete_item_commit(CurDB, reqs[s].args.item_id) IN
       /\ SetDB(r.db)
       /\ \E status \in delete_statuses(live(items, reqs[s].args.item_id), r.status) :
             Goto(s, "delete_item", reqs[s].args, "done", 0, status)

\* delete_image, lines 325-327.
DeleteImageGet(s, image_id) ==
    /\ Free(s)
    /\ IF get_ItemImage(CurDB, image_id) = {}
       THEN Goto(s, "delete_image", [image_id |-> image_id], "done", 0, 404)
       ELSE Goto(s, "delete_image", [image_id |-> image_id], "commit", 0, 0)
    /\ UNCHANGED <<items, item_images, seq>>

\* delete_image, lines 328-330.
DeleteImageCommit(s) ==
    /\ reqs[s].op = "delete_image" /\ reqs[s].pc = "commit"
    /\ LET r == delete_image_commit(CurDB, reqs[s].args.image_id) IN
       /\ SetDB(r.db)
       /\ \E status \in delete_statuses(get_ItemImage(CurDB, reqs[s].args.image_id) # {},
                                         r.status) :
             Goto(s, "delete_image", reqs[s].args, "done", 0, status)

\* upload_images, lines 255-256.
UploadGet(s, item_id, files, name) ==
    /\ Free(s)
    /\ Goto(s, "upload_images", [item_id |-> item_id, files |-> files, name |-> name],
            IF get_ItemModel(CurDB, item_id) = {} THEN "stub" ELSE "count", 0, 0)
    /\ UNCHANGED <<items, item_images, seq>>

\* upload_images, lines 258-266.
UploadStub(s) ==
    /\ reqs[s].op = "upload_images" /\ reqs[s].pc = "stub"
    /\ LET r == insert_item(CurDB, upload_stub(reqs[s].args.item_id, reqs[s].args.name)) IN
       /\ SetDB(r.db)
       /\ IF r.ok THEN Goto(s, "upload_images", reqs[s].args, "count", 0, 0)
          ELSE Goto(s, "upload_images", reqs[s].args, "done", 0, 500)

\* upload_images, lines 268-270.
UploadCount(s) ==
    /\ reqs[s].op = "upload_images" /\ reqs[s].pc = "count"
    /\ LET cur == count_images(CurDB, reqs[s].args.item_id) IN
       IF cur >= MAX_IMAGES
       THEN Goto(s, "upload_images", reqs[s].args, "done", 0, 400)
       ELSE Goto(s, "upload_images", reqs[s].args, "store", cur, 0)
    /\ UNCHANGED <<items, item_images, seq>>

\* upload_images, lines 272-296.
UploadStore(s) ==
    /\ reqs[s].op = "upload_images" /\ reqs[s].pc = "store"
    /\ LET r == upload_store(CurDB, reqs[s].args.item_id, reqs[s].args.files, reqs[s].cur) IN
       /\ r.db.seq <= MaxImageIdConc
       /\ SetDB(r.db)
       /\ Goto(s, "upload_images", reqs[s].args, "done", 0, r.status)

NextConc ==
    \E s \in Slots :
       \/ \E item \in ConcItemIns : CreateCheck(s, item)
       \/ CreateCommit(s)
       \/ \E id \in ConcIds : DeleteItemGet(s, id)
       \/ DeleteItemCommit(s)
       \/ \E i \in ConcImageIds : DeleteImageGet(s, i)
       \/ DeleteImageCommit(s)
       \/ \E id \in ConcIds, files \in ConcBatches : UploadGet(s, id, files, Null)
       \/ UploadStub(s)
       \/ UploadCount(s)
       \/ UploadStore(s)

SpecConc == InitConc /\ [][NextConc]_vars

\* Slot s ends a request of handler op in this step.
Ends(s, op) == reqs[s].pc # "done" /\ reqs'[s].pc = "done" /\ reqs'[s].op = op

\* C1: a create_item for an id that is live when it reaches the database ends
\* with Conflict (409) and leaves the records as they are, and no two live
\* records ever share an id.
C1_DuplicateCreateEndsInConflict ==
    /\ [](\A r1 \in items, r2 \in items : r1.id = r2.id => r1 = r2)
    /\ [][\A s \in Slots :
             (Ends(s, "create_item") /\ live(items, reqs'[s].args.id))
                => (reqs'[s].status = 409 /\ items' = items)]_vars

\* C3: no product ever owns more than MAX_IMAGES stored images.
C3_AtMostMaxImagesPerProduct ==
    \A id \in ConcIds : Cardinality(owned(item_images, id)) <= MAX_IMAGES

\* C4: every stored image belongs to a live product, and the step in which
\* delete_item deletes a product ends with success when the product is live and
\* leaves get_item on it NotFound, list_images on it empty and serve_image on
\* each image it owned NotFound.
C4_DeleteCascades ==
    /\ [](\A img \in item_images : live(items, img.item_id))
    /\ [][\A s \in Slots :
             (reqs[s].pc = "commit" /\ Ends(s, "delete_item"))
                => LET id == reqs[s].args.item_id
                       db == DB(items', item_images', seq')
                   IN /\ live(items, id) => reqs'[s].status = 200
                      /\ get_item(db, id).status = 404
                      /\ list_images(db, id).body = <<>>
                      /\ \A img \in owned(item_images, id) :
                            serve_image(db, img.id).status = 404]_vars

\* One request has stored MAX_IMAGES images for a product, the other has then
\* deleted the product with success, and no image is left.
C4_Witness ==
    \E s \in Slots, u \in Slots :
       /\ reqs[s].op = "delete_item" /\ reqs[s].pc = "done" /\ reqs[s].status = 200
       /\ reqs[u].op = "upload_images" /\ reqs[u].pc = "done" /\ reqs[u].status = 201
       /\ reqs[u].args.item_id = reqs[s].args.item_id
       /\ ~live(items, reqs[s].args.item_id)
       /\ seq = MAX_IMAGES
       /\ item_images = {}

====
